---- MODULE Spec2Model ----
(***************************************************************************)
(* GD Farms REST backend.                                                  *)
(*                                                                         *)
(* Two express applications live in the repository:                        *)
(*   - the full backend (user_settings, items, goals, analytics), and      *)
(*   - server.js (users, items, SQL-side analytics).                       *)
(* Every handler is a sequence of pool.query statements.  One statement is *)
(* one atomic step against the store, and the JSON response is produced in *)
(* the same step as the handler's last statement, because nothing shared   *)
(* is read between that statement and res.json.  A handler with two        *)
(* statements occupies a request slot of Procs between them, and other     *)
(* requests are served in between.                                         *)
(*                                                                         *)
(* The endpoints of the full backend touch disjoint tables, so its         *)
(* behaviour is explored per table: SpecUser (user_settings and the        *)
(* process shell), SpecItems, SpecAnalytics, SpecGoals.  SpecServerJs is   *)
(* server.js.                                                              *)
(***************************************************************************)
EXTENDS Integers, Sequences, FiniteSets, TLC

\* ------------------------------------------------------------------ bounds
MaxGoalInserts == 3      \* goal rows inserted in one behaviour
MaxItemInserts == 2      \* item rows inserted in one behaviour
MaxRows == 7             \* rows of the items table handed to the analytics
MaxJsInserts == 2        \* item rows inserted into server.js's table

\* request slots, identifiers, request bodies
Procs == {"p1", "p2"}
UUIDs == {"u1", "u2", "u3"}
Users == {"u1", "u2"}
NoUserId == "none"
GoalFields == {"g1", "g2"}
SettingsInputs == {"s1", "s2"}
ItemInputs ==
    { [name |-> "a", buying_price |-> 2, selling_price |-> 5, quantity_value |-> 3],
      [name |-> "b", buying_price |-> 1, selling_price |-> 1, quantity_value |-> 10] }
AnalyticsInputs ==
    { <<"u1", [name |-> "a", buying_price |-> 2, selling_price |-> 5, quantity_value |-> 3]>>,
      <<"u1", [name |-> "b", buying_price |-> 1, selling_price |-> 1, quantity_value |-> 10]>>,
      <<"u1", [name |-> "c", buying_price |-> 0, selling_price |-> 2, quantity_value |-> 2]>>,
      <<"u2", [name |-> "a", buying_price |-> 2, selling_price |-> 5, quantity_value |-> 3]>> }
JsItemInputs ==
    { [name |-> "a", cost |-> 2, price |-> 5, quantity |-> 3],
      [name |-> "b", cost |-> 1, price |-> 1, quantity |-> 10] }
ItemIds == 1..(MaxItemInserts + 1)

\* ------------------------------------------------------------ JSON helpers
\* A JSON value that may be null or absent is a sequence: <<>> or <<v>>.
JNull == <<>>
JVal(v) == <<v>>

VARIABLES
    user_settings, \* table user_settings
    items,         \* table items of the full backend, in row order
    nextItemId,    \* the serial behind items.id
    deleted,       \* history: the <<id, user_id>> of every item row deleted
    goals,         \* table goals, in insertion order
    goalClock,     \* number of goal rows inserted so far (orders created_at)
    goalsSet,      \* history: per user, number of goal rows ever inserted
    pc,            \* per request slot: position inside a two-statement handler
    req,           \* per request slot: body of the request being served
    resp,          \* the response sent last
    jsUsers,       \* server.js: table users
    jsItems        \* server.js: table items

vars == <<user_settings, items, nextItemId, deleted, goals, goalClock, goalsSet,
          pc, req, resp, jsUsers, jsItems>>

userVars == <<user_settings>>
itemVars == <<items, nextItemId, deleted>>
goalVars == <<goals, goalClock, goalsSet>>
slotVars == <<pc, req>>
jsVars == <<jsUsers, jsItems>>

\* --------------------------------------------------------------- responses
NoReq == [userId |-> NoUserId]

\* req.params and req.body of the request a response answers
Params(id, u, f) == [id |-> id, userId |-> u, name |-> f]
NoParams == Params(0, NoUserId, "")

NoResp == [op |-> "none", status |-> 0, success |-> JNull, message |-> FALSE,
           error |-> FALSE, detail |-> FALSE, req |-> NoParams, body |-> <<>>]

\* res.json({ success: true, ...payload, [message] })
Ok(op, r, body, msg) ==
    [op |-> op, status |-> 200, success |-> JVal(TRUE), message |-> msg,
     error |-> FALSE, detail |-> FALSE, req |-> r, body |-> body]

\* res.status(404).json({ success: false, message: '... not found' })
NotFound(op, r) ==
    [op |-> op, status |-> 404, success |-> JVal(FALSE), message |-> TRUE,
     error |-> FALSE, detail |-> FALSE, req |-> r, body |-> <<>>]

\* catch (error) { res.status(500).json({ success: false, message: 'Failed to ...' }) }
ServerError(op, r) ==
    [op |-> op, status |-> 500, success |-> JVal(FALSE), message |-> TRUE,
     error |-> FALSE, detail |-> FALSE, req |-> r, body |-> <<>>]

Respond(r) == resp' = r

\* ------------------------------------------------- process shell endpoints
\* GET /api/health: { status, message, timestamp }, no success field
Health ==
    /\ Respond([op |-> "health", status |-> 200, success |-> JNull,
                message |-> TRUE, error |-> FALSE, detail |-> FALSE,
                req |-> NoParams, body |-> <<"OK">>])
    /\ UNCHANGED <<userVars, itemVars, goalVars, slotVars, jsVars>>

\* app.use('*', ...): no route matched
RouteNotFound ==
    /\ Respond(NotFound("route", NoParams))
    /\ UNCHANGED <<userVars, itemVars, goalVars, slotVars, jsVars>>

\* app.use((err, req, res, next) => ...): a middleware passed an error on
ErrorMiddleware ==
    /\ Respond(ServerError("middleware", NoParams))
    /\ UNCHANGED <<userVars, itemVars, goalVars, slotVars, jsVars>>

\* ---------------------------------------------------- user and settings
\* SELECT * FROM user_settings WHERE user_id = $1
SettingsOf(t, u) == SelectSeq(t, LAMBDA row : row.user_id = u)

\* uuidv4(): 122 random bits; a value already keyed in the table is taken
\* not to be drawn again (a duplicate key surfaces as a failed INSERT)
FreshIds(t) == UUIDs \ {t[i].user_id : i \in 1..Len(t)}

\* INSERT INTO user_settings (user_id) VALUES ($1)
NewSettings(u) == [user_id |-> u, currency |-> "default"]

\* UPDATE user_settings SET currency = $1, ... WHERE user_id = $4
UpdateSettingsRows(t, u, s) ==
    [i \in 1..Len(t) |-> IF t[i].user_id = u THEN [t[i] EXCEPT !.currency = s]
                         ELSE t[i]]

\* POST /api/user/init with a userId: the SELECT
InitUserSelect(p, s) ==
    /\ pc[p] = "ready"
    /\ IF Len(SettingsOf(user_settings, s)) > 0
       THEN /\ Respond(Ok("initUser", Params(0, s, ""), <<s>>, TRUE))
            /\ UNCHANGED slotVars
       ELSE /\ pc' = [pc EXCEPT ![p] = "initInsert"]
            /\ req' = [req EXCEPT ![p] = [userId |-> s]]
            /\ UNCHANGED resp
    /\ UNCHANGED <<userVars, itemVars, goalVars, jsVars>>

InitUserSelectFail(p, s) ==
    /\ pc[p] = "ready"
    /\ Respond(ServerError("initUser", Params(0, s, "")))
    /\ UNCHANGED <<userVars, itemVars, goalVars, slotVars, jsVars>>

\* POST /api/user/init without a userId: uuidv4() and the INSERT
InitUserNew(n) ==
    /\ n \in FreshIds(user_settings)
    /\ user_settings' = Append(user_settings, NewSettings(n))
    /\ Respond(Ok("initUser", Params(0, NoUserId, ""), <<n>>, TRUE))
    /\ UNCHANGED <<itemVars, goalVars, slotVars, jsVars>>

InitUserNewFail ==
    /\ Respond(ServerError("initUser", Params(0, NoUserId, "")))
    /\ UNCHANGED <<userVars, itemVars, goalVars, slotVars, jsVars>>

\* POST /api/user/init with an unknown userId: uuidv4() and the INSERT
InitUserInsert(p, n) ==
    /\ pc[p] = "initInsert"
    /\ n \in FreshIds(user_settings)
    /\ user_settings' = Append(user_settings, NewSettings(n))
    /\ Respond(Ok("initUser", Params(0, req[p].userId, ""), <<n>>, TRUE))
    /\ pc' = [pc EXCEPT ![p] = "ready"]
    /\ req' = [req EXCEPT ![p] = NoReq]
    /\ UNCHANGED <<itemVars, goalVars, jsVars>>

InitUserInsertFail(p) ==
    /\ pc[p] = "initInsert"
    /\ Respond(ServerError("initUser", Params(0, req[p].userId, "")))
    /\ pc' = [pc EXCEPT ![p] = "ready"]
    /\ req' = [req EXCEPT ![p] = NoReq]
    /\ UNCHANGED <<userVars, itemVars, goalVars, jsVars>>

\* GET /api/settings/:userId
GetSettings(u) ==
    /\ LET rows == SettingsOf(user_settings, u)
       IN  IF Len(rows) = 0
           THEN Respond(NotFound("getSettings", Params(0, u, "")))
           ELSE Respond(Ok("getSettings", Params(0, u, ""), <<rows[1]>>, FALSE))
    /\ UNCHANGED <<userVars, itemVars, goalVars, slotVars, jsVars>>

GetSettingsFail(u) ==
    /\ Respond(ServerError("getSettings", Params(0, u, "")))
    /\ UNCHANGED <<userVars, itemVars, goalVars, slotVars, jsVars>>

\* PUT /api/settings/:userId
UpdateSettings(u, s) ==
    /\ user_settings' = UpdateSettingsRows(user_settings, u, s)
    /\ LET rows == SettingsOf(UpdateSettingsRows(user_settings, u, s), u)
       IN  IF Len(rows) = 0
           THEN Respond(NotFound("updateSettings", Params(0, u, "")))
           ELSE Respond(Ok("updateSettings", Params(0, u, ""), <<rows[1]>>, TRUE))
    /\ UNCHANGED <<itemVars, goalVars, slotVars, jsVars>>

UpdateSettingsFail(u) ==
    /\ Respond(ServerError("updateSettings", Params(0, u, "")))
    /\ UNCHANGED <<userVars, itemVars, goalVars, slotVars, jsVars>>

\* ------------------------------------------------------------------- items
\* WHERE user_id = $1
ItemsOf(t, u) == SelectSeq(t, LAMBDA row : row.user_id = u)

\* ORDER BY created_at DESC: created_at is the insertion time
Reverse(s) == [i \in 1..Len(s) |-> s[Len(s) + 1 - i]]

\* INSERT INTO items (user_id, name, ..., description) VALUES (...) RETURNING *
NewItem(id, u, f) ==
    [id |-> id, user_id |-> u, name |-> f.name, buying_price |-> f.buying_price,
     selling_price |-> f.selling_price, quantity_value |-> f.quantity_value,
     updated_at |-> FALSE]

\* WHERE id = $8, the owner not compared
MatchItemIdOnly(row, id, u) == row.id = id

\* WHERE id = $8 AND user_id = $9
MatchItem(row, id, u) == row.id = id /\ row.user_id = u

\* SET name = $1, ..., description = $7, updated_at = NOW()
SetItem(row, f) ==
    [row EXCEPT !.name = f.name, !.buying_price = f.buying_price,
                !.selling_price = f.selling_price,
                !.quantity_value = f.quantity_value, !.updated_at = TRUE]

\* UPDATE items SET ... WHERE id = $8 AND user_id = $9
UpdateItems(t, id, u, f) ==
    [i \in 1..Len(t) |-> IF MatchItem(t[i], id, u) THEN SetItem(t[i], f) ELSE t[i]]

\* ... RETURNING * of the UPDATE
UpdatedRows(t, id, u, f) ==
    SelectSeq(UpdateItems(t, id, u, f), LAMBDA row : MatchItem(row, id, u))

\* DELETE FROM items WHERE id = $1, the owner not compared
DeleteItemsIdOnly(t, id, u) == SelectSeq(t, LAMBDA row : row.id # id)

\* DELETE FROM items WHERE id = $1 AND user_id = $2
DeleteItems(t, id, u) ==
    SelectSeq(t, LAMBDA row : ~(row.id = id /\ row.user_id = u))

\* ... RETURNING * of the DELETE
DeletedRows(t, id, u) ==
    SelectSeq(t, LAMBDA row : row.id = id /\ row.user_id = u)

\* GET /api/items/:userId
ListItems(u) ==
    /\ Respond(Ok("listItems", Params(0, u, ""), Reverse(ItemsOf(items, u)), FALSE))
    /\ UNCHANGED <<userVars, itemVars, goalVars, slotVars, jsVars>>

ListItemsFail(u) ==
    /\ Respond(ServerError("listItems", Params(0, u, "")))
    /\ UNCHANGED <<userVars, itemVars, goalVars, slotVars, jsVars>>

\* POST /api/items
AddItem(u, f) ==
    /\ nextItemId <= MaxItemInserts
    /\ LET row == NewItem(nextItemId, u, f)
       IN  /\ items' = Append(items, row)
           /\ Respond(Ok("addItem", Params(0, u, ""), <<row>>, TRUE))
    /\ nextItemId' = nextItemId + 1
    /\ UNCHANGED <<userVars, deleted, goalVars, slotVars, jsVars>>

AddItemFail(u) ==
    /\ Respond(ServerError("addItem", Params(0, u, "")))
    /\ UNCHANGED <<userVars, itemVars, goalVars, slotVars, jsVars>>

\* PUT /api/items/:id
UpdateItem(id, u, f) ==
    /\ items' = UpdateItems(items, id, u, f)
    /\ LET rows == UpdatedRows(items, id, u, f)
       IN  IF Len(rows) = 0
           THEN Respond(NotFound("updateItem", Params(id, u, "")))
           ELSE Respond(Ok("updateItem", Params(id, u, ""), <<rows[1]>>, TRUE))
    /\ UNCHANGED <<userVars, nextItemId, deleted, goalVars, slotVars, jsVars>>

UpdateItemFail(id, u) ==
    /\ Respond(ServerError("updateItem", Params(id, u, "")))
    /\ UNCHANGED <<userVars, itemVars, goalVars, slotVars, jsVars>>

\* DELETE /api/items/:id/:userId
DeleteItem(id, u) ==
    /\ items' = DeleteItems(items, id, u)
    /\ IF Len(DeletedRows(items, id, u)) = 0
       THEN /\ Respond(NotFound("deleteItem", Params(id, u, "")))
            /\ UNCHANGED deleted
       ELSE /\ Respond(Ok("deleteItem", Params(id, u, ""), <<>>, TRUE))
            /\ deleted' = deleted \cup {<<id, u>>}
    /\ UNCHANGED <<userVars, nextItemId, goalVars, slotVars, jsVars>>

DeleteItemFail(id, u) ==
    /\ Respond(ServerError("deleteItem", Params(id, u, "")))
    /\ UNCHANGED <<userVars, itemVars, goalVars, slotVars, jsVars>>

\* --------------------------------------------------------------- analytics
TopN == 5

Min(a, b) == IF a < b THEN a ELSE b

\* items.reduce((sum, item) => sum + item.buying_price * item.quantity_value, 0)
TotalInvestment(rows) ==
    LET F[i \in 0..Len(rows)] ==
            IF i = 0 THEN 0
            ELSE F[i - 1] + rows[i].buying_price * rows[i].quantity_value
    IN  F[Len(rows)]

\* items.reduce((sum, item) => sum + item.selling_price * item.quantity_value, 0)
TotalRevenue(rows) ==
    LET F[i \in 0..Len(rows)] ==
            IF i = 0 THEN 0
            ELSE F[i - 1] + rows[i].selling_price * rows[i].quantity_value
    IN  F[Len(rows)]

\* n / d rounded to the nearest integer, d > 0
RoundDiv(n, d) ==
    IF n >= 0 THEN (2 * n + d) \div (2 * d) ELSE 0 - ((2 * (0 - n) + d) \div (2 * d))

\* totalInvestment > 0 ? (totalProfit / totalInvestment) * 100 : 0, then
\* parseFloat(profitMargin.toFixed(2)); the value is kept in hundredths
ProfitMargin(totalProfit, totalInvestment) ==
    IF totalInvestment > 0 THEN RoundDiv(10000 * totalProfit, totalInvestment) ELSE 0

\* { ...item, profit: (item.selling_price - item.buying_price) * item.quantity_value }
WithProfit(item) ==
    [k \in DOMAIN item \cup {"profit"} |->
        IF k = "profit"
        THEN (item.selling_price - item.buying_price) * item.quantity_value
        ELSE item[k]]

\* (a, b) => a.profit - b.profit
CompareAscending(a, b) == a.profit - b.profit

\* (a, b) => b.profit - a.profit
Compare(a, b) == b.profit - a.profit

\* Array.prototype.sort is stable: an element goes behind every element
\* already placed that the comparator does not order after it
Insert(sorted, x) ==
    LET k == Cardinality({i \in 1..Len(sorted) : Compare(sorted[i], x) <= 0})
    IN  SubSeq(sorted, 1, k) \o <<x>> \o SubSeq(sorted, k + 1, Len(sorted))

Sort(s) ==
    LET F[i \in 0..Len(s)] == IF i = 0 THEN <<>> ELSE Insert(F[i - 1], s[i])
    IN  F[Len(s)]

\* .slice(0, 5)
Slice(s) == SubSeq(s, 1, Min(TopN, Len(s)))

\* items.map(...).sort(...).slice(0, 5)
TopItems(rows) == Slice(Sort([i \in 1..Len(rows) |-> WithProfit(rows[i])]))

ComputeAnalytics(rows) ==
    LET totalInvestment == TotalInvestment(rows)
        totalRevenue == TotalRevenue(rows)
        totalProfit == totalRevenue - totalInvestment
    IN  [totalInvestment |-> totalInvestment,
         totalRevenue |-> totalRevenue,
         totalProfit |-> totalProfit,
         profitMargin |-> ProfitMargin(totalProfit, totalInvestment),
         totalItems |-> Len(rows),
         topItems |-> TopItems(rows)]

\* GET /api/analytics/:userId
Analytics(u) ==
    /\ Respond(Ok("analytics", Params(0, u, ""), <<ComputeAnalytics(ItemsOf(items, u))>>, FALSE))
    /\ UNCHANGED <<userVars, itemVars, goalVars, slotVars, jsVars>>

AnalyticsFail(u) ==
    /\ Respond(ServerError("analytics", Params(0, u, "")))
    /\ UNCHANGED <<userVars, itemVars, goalVars, slotVars, jsVars>>

\* ------------------------------------------------------------------- goals
\* SELECT * FROM goals WHERE user_id = $1
GoalsOf(g, u) == SelectSeq(g, LAMBDA row : row.user_id = u)

\* the DELETE left out
DeleteGoalsOmitted(g, u) == g

\* DELETE FROM goals WHERE user_id = $1
DeleteGoals(g, u) == SelectSeq(g, LAMBDA row : row.user_id # u)

\* INSERT INTO goals (...) VALUES (...) RETURNING *
NewGoal(u, f, clock) == [user_id |-> u, name |-> f, created_at |-> clock + 1]

\* ORDER BY created_at DESC LIMIT 1, then result.rows[0] || null
CurrentGoal(g, u) ==
    LET rows == GoalsOf(g, u)
    IN  IF rows = <<>> THEN JNull
        ELSE JVal(CHOOSE r \in {rows[i] : i \in 1..Len(rows)} :
                     \A i \in 1..Len(rows) : rows[i].created_at <= r.created_at)

\* POST /api/goals, first statement: DELETE
SetGoalDelete(p, u, f) ==
    /\ pc[p] = "ready"
    /\ goalClock < MaxGoalInserts
    /\ goals' = DeleteGoals(goals, u)
    /\ pc' = [pc EXCEPT ![p] = "goalInsert"]
    /\ req' = [req EXCEPT ![p] = [userId |-> u, name |-> f]]
    /\ UNCHANGED <<userVars, itemVars, goalClock, goalsSet, resp, jsVars>>

\* POST /api/goals, the DELETE fails: catch -> 500
SetGoalDeleteFail(p, u, f) ==
    /\ pc[p] = "ready"
    /\ Respond(ServerError("setGoal", Params(0, u, f)))
    /\ UNCHANGED <<userVars, itemVars, goalVars, slotVars, jsVars>>

\* POST /api/goals, second statement: INSERT ... RETURNING *, then res.json
SetGoalInsert(p) ==
    /\ pc[p] = "goalInsert"
    /\ LET row == NewGoal(req[p].userId, req[p].name, goalClock)
       IN  /\ goals' = Append(goals, row)
           /\ Respond(Ok("setGoal", Params(0, req[p].userId, req[p].name), <<row>>, TRUE))
    /\ goalClock' = goalClock + 1
    /\ goalsSet' = [goalsSet EXCEPT ![req[p].userId] = @ + 1]
    /\ pc' = [pc EXCEPT ![p] = "ready"]
    /\ req' = [req EXCEPT ![p] = NoReq]
    /\ UNCHANGED <<userVars, itemVars, jsVars>>

\* POST /api/goals, the INSERT fails: catch -> 500, the DELETE is not undone
SetGoalInsertFail(p) ==
    /\ pc[p] = "goalInsert"
    /\ Respond(ServerError("setGoal", Params(0, req[p].userId, req[p].name)))
    /\ pc' = [pc EXCEPT ![p] = "ready"]
    /\ req' = [req EXCEPT ![p] = NoReq]
    /\ UNCHANGED <<userVars, itemVars, goalVars, jsVars>>

\* GET /api/goals/:userId
GetGoal(u) ==
    /\ Respond(Ok("getGoal", Params(0, u, ""), CurrentGoal(goals, u), FALSE))
    /\ UNCHANGED <<userVars, itemVars, goalVars, slotVars, jsVars>>

GetGoalFail(u) ==
    /\ Respond(ServerError("getGoal", Params(0, u, "")))
    /\ UNCHANGED <<userVars, itemVars, goalVars, slotVars, jsVars>>

\* --------------------------------------------------------------- server.js
\* res.status(500).json({ success: false, error: err.message })
JsServerError(op, r) ==
    [op |-> op, status |-> 500, success |-> JVal(FALSE), message |-> FALSE,
     error |-> TRUE, detail |-> TRUE, req |-> r, body |-> <<>>]

\* GET /
JsRoot ==
    /\ Respond(Ok("root", NoParams, <<>>, TRUE))
    /\ UNCHANGED <<userVars, itemVars, goalVars, slotVars, jsVars>>

\* POST /api/user/init: crypto.randomUUID() and the INSERT; the body is not read
JsInitUser(s, n) ==
    /\ n \in UUIDs \ jsUsers
    /\ jsUsers' = jsUsers \cup {n}
    /\ Respond(Ok("initUser", Params(0, s, ""), <<n>>, FALSE))
    /\ UNCHANGED <<userVars, itemVars, goalVars, slotVars, jsItems>>

JsInitUserFail(s) ==
    /\ Respond(JsServerError("initUser", Params(0, s, "")))
    /\ UNCHANGED <<userVars, itemVars, goalVars, slotVars, jsVars>>

\* POST /api/items
JsAddItem(u, f) ==
    /\ Len(jsItems) < MaxJsInserts
    /\ jsItems' = Append(jsItems, [user_id |-> u, name |-> f.name, cost |-> f.cost,
                                   price |-> f.price, quantity |-> f.quantity])
    /\ Respond(Ok("addItem", Params(0, u, ""), <<>>, TRUE))
    /\ UNCHANGED <<userVars, itemVars, goalVars, slotVars, jsUsers>>

JsAddItemFail(u) ==
    /\ Respond(JsServerError("addItem", Params(0, u, "")))
    /\ UNCHANGED <<userVars, itemVars, goalVars, slotVars, jsVars>>

\* GET /api/items/:userId
JsListItems(u) ==
    /\ Respond(Ok("listItems", Params(0, u, ""), ItemsOf(jsItems, u), FALSE))
    /\ UNCHANGED <<userVars, itemVars, goalVars, slotVars, jsVars>>

JsListItemsFail(u) ==
    /\ Respond(JsServerError("listItems", Params(0, u, "")))
    /\ UNCHANGED <<userVars, itemVars, goalVars, slotVars, jsVars>>

\* SUM(expr) over the selected rows: NULL when no row is selected
SqlSum(vals) ==
    LET F[i \in 0..Len(vals)] == IF i = 0 THEN 0 ELSE F[i - 1] + vals[i]
    IN  IF Len(vals) = 0 THEN JNull ELSE JVal(F[Len(vals)])

\* a - b in SQL: NULL when an operand is NULL
SqlMinus(a, b) == IF a = JNull \/ b = JNull THEN JNull ELSE JVal(a[1] - b[1])

\* SELECT SUM(price * quantity) AS revenue, SUM(cost * quantity) AS cost,
\*        SUM(price * quantity) - SUM(cost * quantity) AS profit
JsAnalyticsRow(rows) ==
    LET revenue == SqlSum([i \in 1..Len(rows) |-> rows[i].price * rows[i].quantity])
        cost == SqlSum([i \in 1..Len(rows) |-> rows[i].cost * rows[i].quantity])
    IN  [revenue |-> revenue, cost |-> cost, profit |-> SqlMinus(revenue, cost)]

\* GET /api/analytics/:userId
JsAnalytics(u) ==
    /\ Respond(Ok("analytics", Params(0, u, ""), <<JsAnalyticsRow(ItemsOf(jsItems, u))>>, FALSE))
    /\ UNCHANGED <<userVars, itemVars, goalVars, slotVars, jsVars>>

JsAnalyticsFail(u) ==
    /\ Respond(JsServerError("analytics", Params(0, u, "")))
    /\ UNCHANGED <<userVars, itemVars, goalVars, slotVars, jsVars>>

\* app.use((req, res) => ...): no route matched
JsCatchAll ==
    /\ Respond(NotFound("route", NoParams))
    /\ UNCHANGED <<userVars, itemVars, goalVars, slotVars, jsVars>>

\* ------------------------------------------------------------------- specs
Init ==
    /\ user_settings = <<>>
    /\ items = <<>>
    /\ nextItemId = 1
    /\ deleted = {}
    /\ goals = <<>>
    /\ goalClock = 0
    /\ goalsSet = [u \in Users |-> 0]
    /\ pc = [p \in Procs |-> "ready"]
    /\ req = [p \in Procs |-> NoReq]
    /\ resp = NoResp
    /\ jsUsers = {}
    /\ jsItems = <<>>

NextUser ==
    \/ Health
    \/ RouteNotFound
    \/ ErrorMiddleware
    \/ \E p \in Procs, s \in UUIDs : InitUserSelect(p, s)
    \/ \E p \in Procs, s \in UUIDs : InitUserSelectFail(p, s)
    \/ \E n \in UUIDs : InitUserNew(n)
    \/ InitUserNewFail
    \/ \E p \in Procs, n \in UUIDs : InitUserInsert(p, n)
    \/ \E p \in Procs : InitUserInsertFail(p)
    \/ \E u \in UUIDs : GetSettings(u)
    \/ \E u \in UUIDs : GetSettingsFail(u)
    \/ \E u \in UUIDs, s \in SettingsInputs : UpdateSettings(u, s)
    \/ \E u \in UUIDs : UpdateSettingsFail(u)

SpecUser == Init /\ [][NextUser]_vars

NextItems ==
    \/ \E u \in Users : ListItems(u)
    \/ \E u \in Users : ListItemsFail(u)
    \/ \E u \in Users, f \in ItemInputs : AddItem(u, f)
    \/ \E u \in Users : AddItemFail(u)
    \/ \E id \in ItemIds, u \in Users, f \in ItemInputs : UpdateItem(id, u, f)
    \/ \E id \in ItemIds, u \in Users : UpdateItemFail(id, u)
    \/ \E id \in ItemIds, u \in Users : DeleteItem(id, u)
    \/ \E id \in ItemIds, u \in Users : DeleteItemFail(id, u)

SpecItems == Init /\ [][NextItems]_vars

\* the items table as the analytics may find it: any rows in any order
InitAnalytics ==
    /\ \E n \in 0..MaxRows : \E c \in [1..n -> AnalyticsInputs] :
          items = [i \in 1..n |-> NewItem(i, c[i][1], c[i][2])]
    /\ nextItemId = Len(items) + 1
    /\ user_settings = <<>>
    /\ deleted = {}
    /\ goals = <<>>
    /\ goalClock = 0
    /\ goalsSet = [u \in Users |-> 0]
    /\ pc = [p \in Procs |-> "ready"]
    /\ req = [p \in Procs |-> NoReq]
    /\ resp = NoResp
    /\ jsUsers = {}
    /\ jsItems = <<>>

NextAnalytics ==
    \/ \E u \in Users : Analytics(u)
    \/ \E u \in Users : AnalyticsFail(u)

SpecAnalytics == InitAnalytics /\ [][NextAnalytics]_vars

NextGoals ==
    \/ \E p \in Procs, u \in Users, f \in GoalFields : SetGoalDelete(p, u, f)
    \/ \E p \in Procs, u \in Users, f \in GoalFields : SetGoalDeleteFail(p, u, f)
    \/ \E p \in Procs : SetGoalInsert(p)
    \/ \E p \in Procs : SetGoalInsertFail(p)
    \/ \E u \in Users : GetGoal(u)
    \/ \E u \in Users : GetGoalFail(u)

SpecGoals == Init /\ [][NextGoals]_vars

\* setGoal requests served one after the other, the store never failing
SetGoalInFlight(u) == \E q \in Procs : pc[q] = "goalInsert" /\ req[q].userId = u

SeqSetGoalDelete(p, u, f) ==
    /\ \A q \in Procs : pc[q] = "ready"
    /\ SetGoalDelete(p, u, f)

NextGoalsSeq ==
    \/ \E p \in Procs, u \in Users, f \in GoalFields : SeqSetGoalDelete(p, u, f)
    \/ \E p \in Procs : SetGoalInsert(p)
    \/ \E u \in Users : GetGoal(u)

SpecGoalsSeq == Init /\ [][NextGoalsSeq]_vars

NextServerJs ==
    \/ JsRoot
    \/ \E s \in UUIDs \cup {NoUserId}, n \in UUIDs : JsInitUser(s, n)
    \/ \E s \in UUIDs \cup {NoUserId} : JsInitUserFail(s)
    \/ \E u \in Users, f \in JsItemInputs : JsAddItem(u, f)
    \/ \E u \in Users : JsAddItemFail(u)
    \/ \E u \in Users : JsListItems(u)
    \/ \E u \in Users : JsListItemsFail(u)
    \/ \E u \in Users : JsAnalytics(u)
    \/ \E u \in Users : JsAnalyticsFail(u)
    \/ JsCatchAll

SpecServerJs == Init /\ [][NextServerJs]_vars

\* ------------------------------------------------------------------ claims
\* C1: once a user has a goal row, a getCurrentGoal served while setGoal
\* requests for that user are in progress never answers goal = null.
C1_ReaderNeverSeesNoGoal ==
    [][\A u \in Users : (goalsSet[u] > 0 /\ GetGoal(u)) => resp'.body # JNull]_vars

\* C2: the goals table holds at most one row per user in every reachable
\* state, the states between the statements of overlapping setGoal requests
\* included.
C2_AtMostOneGoalPerUser ==
    \A u \in Users : Len(GoalsOf(goals, u)) <= 1

\* C3: setGoal calls for one user that run one after the other, with no
\* store failure, leave exactly one goal row for the user, carrying the
\* fields of the call that just completed, and a getCurrentGoal that follows
\* returns that row.
C3_SequentialSetGoal ==
    [][/\ \A p \in Procs :
             SetGoalInsert(p) =>
                 /\ Len(GoalsOf(goals', req[p].userId)) = 1
                 /\ GoalsOf(goals', req[p].userId)[1].name = req[p].name
                 /\ resp'.body = GoalsOf(goals', req[p].userId)
       /\ \A u \in Users :
             (GetGoal(u) /\ goalsSet[u] > 0 /\ ~SetGoalInFlight(u)) =>
                 /\ Len(GoalsOf(goals, u)) = 1
                 /\ resp'.body = GoalsOf(goals, u)]_vars

C3_Witness ==
    \E u \in Users :
        /\ goalsSet[u] >= 2
        /\ ~SetGoalInFlight(u)
        /\ resp.op = "getGoal" /\ resp.req.userId = u
        /\ resp.body = GoalsOf(goals, u)
        /\ Len(resp.body) = 1
        /\ resp.body[1].created_at >= 2

Owned(t, id, u) == {i \in 1..Len(t) : t[i].id = id /\ t[i].user_id = u}

\* C4: updateItem with an id that does not exist, or that belongs to another
\* user than the userId of the body, answers 404 with success = false and
\* leaves every item row unchanged; an updateItem never changes a row other
\* than the one matching both id and userId.
C4_UpdateItemNotOwned ==
    [][LET id == resp'.req.id
           u == resp'.req.userId
       IN (\E f \in ItemInputs : UpdateItem(id, u, f)) =>
              /\ Len(items') = Len(items)
              /\ \A i \in 1..Len(items) : i \notin Owned(items, id, u) => items'[i] = items[i]
              /\ Owned(items, id, u) = {} =>
                     /\ resp'.status = 404
                     /\ resp'.success = JVal(FALSE)
                     /\ items' = items]_vars

C4_Witness ==
    /\ resp.op = "updateItem"
    /\ resp.status = 404
    /\ \E i \in 1..Len(items) :
          /\ items[i].id = resp.req.id
          /\ items[i].user_id # resp.req.userId
          /\ items[i].updated_at = FALSE

Without(t, k) == [i \in 1..(Len(t) - 1) |-> IF i < k THEN t[i] ELSE t[i + 1]]

\* C5: deleteItem removes exactly the one row matching both id and userId and
\* answers success; a delete of an id and userId already deleted answers 404
\* and leaves the table unchanged; a delete by a user that does not own the
\* item removes nothing.
C5_DeleteItem ==
    [][LET id == resp'.req.id
           u == resp'.req.userId
       IN DeleteItem(id, u) =>
              /\ Cardinality(Owned(items, id, u)) <= 1
              /\ Owned(items, id, u) = {} =>
                     /\ items' = items
                     /\ resp'.status = 404
                     /\ resp'.success = JVal(FALSE)
              /\ \A k \in Owned(items, id, u) :
                     /\ items' = Without(items, k)
                     /\ resp'.status = 200
                     /\ resp'.success = JVal(TRUE)
              /\ <<id, u>> \in deleted =>
                     /\ items' = items
                     /\ resp'.status = 404]_vars

C5_Witness ==
    /\ resp.op = "deleteItem"
    /\ resp.status = 404
    /\ <<resp.req.id, resp.req.userId>> \in deleted
    /\ Len(items) > 0

\* the sum of the values, whatever their order
Total(vals) ==
    LET S[I \in SUBSET (1..Len(vals))] ==
            IF I = {} THEN 0
            ELSE LET i == CHOOSE j \in I : TRUE IN vals[i] + S[I \ {i}]
    IN  S[1..Len(vals)]

Buying(r) == IF "cost" \in DOMAIN r THEN r.cost ELSE r.buying_price
Selling(r) == IF "price" \in DOMAIN r THEN r.price ELSE r.selling_price
Quantity(r) == IF "quantity" \in DOMAIN r THEN r.quantity ELSE r.quantity_value

\* C6: for every set of a user's items, the empty one included, the analytics
\* answer totalInvestment = sum of buying price * quantity, totalRevenue = sum
\* of selling price * quantity, totalProfit = their difference, and
\* profitMargin = 100 * totalProfit / totalInvestment to two decimals when
\* totalInvestment > 0 and 0 otherwise, over that user's items only.  (The
\* SQL-side variant names the totals cost, revenue and profit and reports no
\* margin.)
C6_AnalyticsTotals ==
    (resp.op = "analytics" /\ resp.status = 200) =>
        LET a == resp.body[1]
            full == "totalInvestment" \in DOMAIN a
            rows == IF full THEN ItemsOf(items, resp.req.userId)
                    ELSE ItemsOf(jsItems, resp.req.userId)
            investment == Total([i \in 1..Len(rows) |-> Buying(rows[i]) * Quantity(rows[i])])
            revenue == Total([i \in 1..Len(rows) |-> Selling(rows[i]) * Quantity(rows[i])])
        IN  /\ (IF full THEN JVal(a.totalInvestment) ELSE a.cost) = JVal(investment)
            /\ (IF full THEN JVal(a.totalRevenue) ELSE a.revenue) = JVal(revenue)
            /\ (IF full THEN JVal(a.totalProfit) ELSE a.profit) = JVal(revenue - investment)
            /\ full =>
                  IF investment > 0
                  THEN /\ 2 * (investment * a.profitMargin - 10000 * (revenue - investment)) <= investment
                       /\ 2 * (10000 * (revenue - investment) - investment * a.profitMargin) <= investment
                  ELSE a.profitMargin = 0

ProfitOf(r) == (r.selling_price - r.buying_price) * r.quantity_value
PosOf(rows, id) == CHOOSE i \in 1..Len(rows) : rows[i].id = id

\* C7: topItems holds min(5, number of the user's items) items, those of
\* greatest per-item profit (selling_price - buying_price) * quantity, in
\* descending order of profit, items of equal profit in their original row
\* order.
C7_TopItems ==
    (resp.op = "analytics" /\ resp.status = 200) =>
        LET rows == ItemsOf(items, resp.req.userId)
            top == resp.body[1].topItems
            ids == {top[k].id : k \in 1..Len(top)}
        IN  /\ Len(top) = IF Len(rows) < 5 THEN Len(rows) ELSE 5
            /\ Cardinality(ids) = Len(top)
            /\ \A k \in 1..Len(top) :
                  /\ \E i \in 1..Len(rows) : WithProfit(rows[i]) = top[k]
                  /\ top[k].profit = ProfitOf(top[k])
            /\ \A k, l \in 1..Len(top) :
                  k < l => \/ top[k].profit > top[l].profit
                           \/ /\ top[k].profit = top[l].profit
                              /\ PosOf(rows, top[k].id) < PosOf(rows, top[l].id)
            /\ \A i \in 1..Len(rows), k \in 1..Len(top) :
                  rows[i].id \notin ids =>
                      \/ ProfitOf(rows[i]) < top[k].profit
                      \/ /\ ProfitOf(rows[i]) = top[k].profit
                         /\ i > PosOf(rows, top[k].id)

C7_Witness ==
    /\ resp.op = "analytics"
    /\ resp.status = 200
    /\ LET rows == ItemsOf(items, resp.req.userId)
           top == resp.body[1].topItems
       IN  /\ Len(rows) > 5
           /\ Len(top) = 5
           /\ Len(items) > Len(rows)
           /\ \E k \in 1..4 : top[k].profit > top[k + 1].profit
           /\ \E k \in 1..4 : top[k].profit = top[k + 1].profit
           /\ \E i \in 1..Len(rows) :
                 /\ \A k \in 1..5 : top[k].id # rows[i].id
                 /\ ProfitOf(rows[i]) = top[5].profit
           /\ \E i, j \in 1..Len(rows) : i < j /\ ProfitOf(rows[i]) < ProfitOf(rows[j])

\* C8: every response of every endpoint carries a boolean success field, and
\* every response with success = false carries an error message.
C8_Envelope ==
    resp.op # "none" =>
        /\ resp.success \in {JVal(TRUE), JVal(FALSE)}
        /\ resp.success = JVal(FALSE) => (resp.message \/ resp.error)

StoreFailure ==
    \/ \E p \in Procs, s \in UUIDs : InitUserSelectFail(p, s)
    \/ InitUserNewFail
    \/ \E p \in Procs : InitUserInsertFail(p)
    \/ \E u \in UUIDs : GetSettingsFail(u)
    \/ \E u \in UUIDs : UpdateSettingsFail(u)
    \/ \E u \in Users : ListItemsFail(u)
    \/ \E u \in Users : AddItemFail(u)
    \/ \E id \in ItemIds, u \in Users : UpdateItemFail(id, u)
    \/ \E id \in ItemIds, u \in Users : DeleteItemFail(id, u)
    \/ \E u \in Users : AnalyticsFail(u)
    \/ \E p \in Procs, u \in Users, f \in GoalFields : SetGoalDeleteFail(p, u, f)
    \/ \E p \in Procs : SetGoalInsertFail(p)
    \/ \E u \in Users : GetGoalFail(u)
    \/ \E s \in UUIDs \cup {NoUserId} : JsInitUserFail(s)
    \/ \E u \in Users : JsAddItemFail(u)
    \/ \E u \in Users : JsListItemsFail(u)
    \/ \E u \in Users : JsAnalyticsFail(u)

ZeroRows ==
    \/ \E id \in ItemIds, u \in Users, f \in ItemInputs :
          UpdateItem(id, u, f) /\ Owned(items, id, u) = {}
    \/ \E id \in ItemIds, u \in Users : DeleteItem(id, u) /\ Owned(items, id, u) = {}
    \/ \E u \in UUIDs : GetSettings(u) /\ Len(SettingsOf(user_settings, u)) = 0
    \/ \E u \in UUIDs, s \in SettingsInputs :
          UpdateSettings(u, s) /\ Len(SettingsOf(user_settings, u)) = 0

\* C9: in every endpoint a failed store statement is answered in the same
\* request with status 500 and success = false, with a generic message that
\* carries no detail of the store error, and the tables are left as the failed
\* statement found them (no retry); a statement matching zero rows is
\* answered with 404.
C9_StoreErrorEnvelope ==
    [][/\ StoreFailure =>
             /\ resp'.status = 500
             /\ resp'.success = JVal(FALSE)
             /\ ~resp'.detail
             /\ UNCHANGED <<userVars, itemVars, goalVars, jsVars>>
       /\ ZeroRows => resp'.status = 404]_vars

\* C10: initUser answers the userId it was given, and inserts nothing, when a
\* row for that userId exists; in every other case it answers a newly
\* generated identifier, different from every existing one, and inserts
\* exactly one row keyed on it.
C10_InitUser ==
    [][/\ \A p \in Procs, s \in UUIDs :
             (InitUserSelect(p, s) /\ Len(SettingsOf(user_settings, s)) > 0) =>
                 resp'.body = <<s>> /\ user_settings' = user_settings
       /\ \A n \in UUIDs :
             (InitUserNew(n) \/ \E p \in Procs : InitUserInsert(p, n)) =>
                 /\ SettingsOf(user_settings, n) = <<>>
                 /\ resp'.body = <<n>>
                 /\ user_settings' = Append(user_settings, NewSettings(n))
       /\ \A s \in UUIDs \cup {NoUserId}, n \in UUIDs :
             JsInitUser(s, n) =>
                 IF s \in jsUsers
                 THEN resp'.body = <<s>> /\ jsUsers' = jsUsers
                 ELSE n \notin jsUsers /\ resp'.body = <<n>> /\ jsUsers' = jsUsers \cup {n}]_vars

====
